---- MODULE Spec2Model ----
(***************************************************************************)
(* Model of rucio_consistency/scripts/db_dump.py: main() as a state        *)
(* machine.  Strings that the code inspects character by character (paths, *)
(* state specs, output lines) are sequences of one-character strings; an   *)
(* optional value (Python None or an unbound local) is the empty sequence  *)
(* and a present value v is <<v>>.                                         *)
(***************************************************************************)
EXTENDS Integers, Sequences, FiniteSets, TLC

\* ---------------------------------------------------------------- bounds
MaxRows == 2
MaxCap == 1
MaxParts == 2

\* ------------------------------------------------------- string helpers
None == <<>>
Some(v) == <<v>>

\* str.startswith
StartsWith(s, p) == Len(p) <= Len(s) /\ SubSeq(s, 1, Len(p)) = p

\* str.endswith
EndsWith(s, p) == Len(p) <= Len(s) /\ SubSeq(s, Len(s) - Len(p) + 1, Len(s)) = p

\* "x in s" for a one-character x and a string s
CharIn(x, s) == \E i \in 1..Len(s) : s[i] = x

\* set(states)
CharSet(s) == {s[i] : i \in 1..Len(s)}

\* position of the last "/" of s, 0 when there is none
LastSlash(s) == IF \E i \in 1..Len(s) : s[i] = "/"
                THEN CHOOSE i \in 1..Len(s) : s[i] = "/" /\ \A j \in (i+1)..Len(s) : s[j] # "/"
                ELSE 0

\* a parent directory cut at the first "/" instead of the last
ParentDirFirst(path) ==
    IF LastSlash(path) = 0 THEN <<"/">>
    ELSE SubSeq(path, 1, (CHOOSE i \in 1..Len(path) : path[i] = "/" /\ \A j \in 1..(i-1) : path[j] # "/") - 1)

\* words = path.rsplit("/", 1); dirp = "/" if len(words) == 1 else words[0]
ParentDir(path) == IF LastSlash(path) = 0 THEN <<"/">> ELSE SubSeq(path, 1, LastSlash(path) - 1)

\* path or "null"
OrNull(path) == IF path = <<>> THEN <<"n", "u", "l", "l">> ELSE path

Tab == <<"\t">>

\* ---------------------------------------------------------------- inputs
rse_name == <<"R">>

\* replica names and paths found in the catalog
N_abf == <<"/", "a", "/", "b", "/", "f">>
N_af == <<"/", "a", "/", "f">>
N_ag == <<"/", "a", "/", "g">>
N_aif == <<"/", "a", "/", "i", "/", "f">>
N_xf == <<"/", "x", "/", "f">>

Names == {N_abf, N_af, N_aif, N_xf}
States == {"A", "B"}

\* rows of the replicas table: the Replica class
Replica == [name : Names, path : {None}, state : States, scope : {<<"s">>}]
           \cup {[name |-> N_ag, path |-> N_xf, state |-> "A", scope |-> <<"s">>]}

\* tables of at most MaxRows rows, (scope, name) being part of the primary key
Tables == {t \in UNION {[1..n -> Replica] : n \in 0..MaxRows} :
             \A i, j \in DOMAIN t : i # j => <<t[i].scope, t[i].name>> # <<t[j].scope, t[j].name>>}

\* the -f options of a command line, in order: <<states, prefix>>
FilterOptions == {
    <<>>,
    << <<<<"A">>, "o1">>, <<<<"A", "B">>, "o2">> >>,
    << <<<<"*">>, "o1">>, <<<<"B">>, "o2">> >>,
    << <<<<"A">>, "o1">>, <<<<"A">>, "o2">> >>,
    << <<<<"A">>, "o1">>, <<<<"B">>, "o1">> >>,
    << <<<<"A", "*">>, "o1">> >> }

\* the RSE section of the configuration file: CEConfiguration(...)[rse_name]
R_a == <<"/", "a">>
R_ab == <<"/", "a", "/", "b">>
R_abs == <<"/", "a", "/", "b", "/">>
I_ai == <<"/", "a", "/", "i">>
I_x == <<"/", "x">>

Configs == [NPartitions : {1},
            DBDumpPathRoot : {<<"/", "a">>},
            IgnoreList : {<<>>, <<I_ai, I_x>>},
            RootList : {<<R_a, R_ab>>, <<R_ab, R_a>>, <<R_abs>>}]

\* the parsed command line
Options == [f : FilterOptions,
            l : BOOLEAN,
            s : BOOLEAN,
            r : BOOLEAN,
            m : {0, MaxCap},
            n : {None, Some(MaxParts)}]

\* ------------------------------------------------- external collaborators
\* character codes of the characters that occur in output lines
CharCode(c) == CASE c = "/" -> 47 [] c = "a" -> 97 [] c = "b" -> 98 [] c = "f" -> 102
                 [] c = "g" -> 103 [] c = "i" -> 105 [] c = "x" -> 120 [] c = "n" -> 110 [] c = "u" -> 117
                 [] c = "l" -> 108 [] c = "s" -> 115 [] c = "R" -> 82 [] c = "A" -> 65
                 [] c = "B" -> 66 [] c = "\t" -> 9 [] OTHER -> 0

RECURSIVE StableHash(_)
StableHash(line) == IF line = <<>> THEN 1
                    ELSE (StableHash(Tail(line)) + CharCode(Head(line))) % 65521

\* partition index (1-based) of a line among n partitions
PartIndex(n, line) == (StableHash(line) % n) + 1

\* PartitionedList.create(nparts, prefix, zout): n open writers, nothing written
PLCreate(n, prefix) == [prefix |-> prefix, parts |-> [i \in 1..n |-> <<>>], closed |-> FALSE]

\* the file of partition i of an output set: named after the prefix and the index
PartFile(pl, i) == <<pl.prefix, i>>

\* PartitionedList.add(line): the line goes to the partition its hash selects
PLAdd(pl, line) == [pl EXCEPT !.parts[PartIndex(Len(pl.parts), line)] = Append(@, line)]

\* PartitionedList.close()
PLClose(pl) == [pl EXCEPT !.closed = TRUE]

\* Stats.update_section(key, data): data is merged into the section
UpdateSection(section, data) ==
    LET old == IF section = None THEN <<>> ELSE section[1]
    IN  Some([k \in DOMAIN old \cup DOMAIN data |-> IF k \in DOMAIN data THEN data[k] ELSE old[k]])

\* ----------------------------------------------- main(): pure fragments
\* filters[states] = prefix on a dict kept as a sequence of <<key, value>>
DictPut(d, k, v) == IF \E i \in DOMAIN d : d[i][1] = k
                    THEN [i \in DOMAIN d |-> IF d[i][1] = k THEN <<k, v>> ELSE d[i]]
                    ELSE Append(d, <<k, v>>)

\* the loop over the -f options that fills filters
RECURSIVE ParseFilters(_, _)
ParseFilters(fopts, d) == IF fopts = <<>> THEN d
                          ELSE ParseFilters(Tail(fopts), DictPut(d, Head(fopts)[1], Head(fopts)[2]))

\* all_states |= set(states), over every -f option
AllStates(fopts) == UNION {CharSet(fopts[i][1]) : i \in DOMAIN fopts}

\* stop_after = int(opts.get("-m", 0)) or None
StopAfter(m) == IF m = 0 THEN None ELSE Some(m)

\* nparts = int(opts["-n"]) if "-n" in opts else config.NPartitions
NParts(o, c) == IF o.n # None THEN o.n[1] ELSE c.NPartitions

\* subdir = config.DBDumpPathRoot, "/" appended when missing
Subdir(c) == IF EndsWith(c.DBDumpPathRoot, <<"/">>) THEN c.DBDumpPathRoot
             ELSE c.DBDumpPathRoot \o <<"/">>

\* the rows the query yields: every replica of the RSE, restricted to the
\* states of the filters unless one of them has "*"
SelectReplicas(table, states) ==
    IF "*" \in states THEN table
    ELSE SelectSeq(table, LAMBDA r : r.state \in states)

\* root_file_counts = {root: 0 for root in config.RootList}
RECURSIVE InitRootCounts(_, _)
InitRootCounts(roots, d) == IF roots = <<>> THEN d
                            ELSE InitRootCounts(Tail(roots), DictPut(d, Head(roots), 0))

\* path = r.name
PathOf(r) == r.name

\* prefix = root + "/" if not root.endswith("/") else root
RootPrefix(root) == IF EndsWith(root, <<"/">>) THEN root ELSE root \o <<"/">>

\* a loop without the subdirectory test
OutsideSubdirNever(path, sd) == FALSE

\* not path.startswith(subdir)
OutsideSubdir(path, sd) == ~StartsWith(path, sd)

\* an ignore test that compares whole paths instead of prefixes
IsIgnoredExact(path, ignores) == \E i \in DOMAIN ignores : path = ignores[i]

\* any(path.startswith(ignore_prefix) for ignore_prefix in ignore_list)
IsIgnored(path, ignores) == \E i \in DOMAIN ignores : StartsWith(path, ignores[i])

\* a root search that prefers the longest matching root
MatchedRootMostSpecific(path, counts) ==
    LET m == {i \in DOMAIN counts : StartsWith(path, RootPrefix(counts[i][1]))}
    IN  IF m = {} THEN 0
        ELSE CHOOSE i \in m : \A j \in m : Len(counts[j][1]) <= Len(counts[i][1])

\* lines 235-240: index in root_file_counts of the root the loop breaks on,
\* 0 when the loop runs to its end
MatchedRoot(path, counts) ==
    LET m == {i \in DOMAIN counts : StartsWith(path, RootPrefix(counts[i][1]))}
    IN  IF m = {} THEN 0 ELSE CHOOSE i \in m : \A j \in m : i <= j

\* a search without the break: the roots listed after the matched one are counted too
BumpRootOnward(counts, i) == [j \in DOMAIN counts |-> IF j >= i THEN <<counts[j][1], counts[j][2] + 1>> ELSE counts[j]]

\* root_file_counts[root] = root_count + 1
BumpRoot(counts, i) == [counts EXCEPT ![i] = <<@[1], @[2] + 1>>]

\* state in s or s == "*"
GroupAccepts(s, state) == CharIn(state, s) \/ s = <<"*">>

\* the line handed to out_list.add
OutLine(r, long) ==
    IF long
    THEN rse_name \o Tab \o r.scope \o Tab \o r.name \o Tab \o OrNull(PathOf(r)) \o Tab \o <<r.state>>
    ELSE OrNull(PathOf(r))

\* a cap test that stops one row late
CapReachedLate(n, cap) == cap # None /\ n > cap[1]

\* stop_after is not None and ntotal >= stop_after
CapReached(n, cap) == cap # None /\ n >= cap[1]

\* json.dumps(root_file_counts, sort_keys=True): the counts as a mapping
ReportOf(counts) == {<<counts[i][1], counts[i][2]>> : i \in DOMAIN counts}

\* ------------------------------------------------------------------ state
VARIABLES
    pc,                \* position in main()
    opts,              \* the parsed command line
    filters,           \* dict states -> prefix, as a sequence of pairs
    all_states,        \* set of the state characters of all -f options
    config,            \* the RSE configuration, None until loaded
    stats_section,     \* the section of the stats file, None until written
    nparts,
    subdir,
    ignore_list,       \* the local ignore_list, None while unbound
    outputs,           \* the output sets created so far, <<states, set>>
    replicas,          \* the rows the query yields
    pos,               \* index of the next row
    dirs,
    ntotal,
    ignored_files,
    root_file_counts,  \* dict root -> count, as a sequence of pairs
    fault,             \* the exception raised in main(), None if none
    raised,            \* the exception that left main(), None if none
    report,            \* content of the root-count file, None until written
    root_file_counts_out, \* the report file object: None, "open" or "closed"
    log                \* what the run has written so far, in order

vars == <<pc, opts, filters, all_states, config, stats_section, nparts, subdir,
          ignore_list, outputs, replicas, pos, dirs, ntotal, ignored_files,
          root_file_counts, fault, raised, report, root_file_counts_out, log>>

cmdline == <<opts, filters, all_states>>
locals == <<nparts, subdir, ignore_list>>
counters == <<dirs, ntotal, ignored_files, root_file_counts>>

long_output == opts.l
stats_on == opts.s
stop_after == StopAfter(opts.m)
report_on == opts.r

Init ==
    /\ pc = "args"
    /\ opts = [f |-> <<>>, l |-> FALSE, s |-> FALSE, r |-> FALSE, m |-> 0, n |-> None]
    /\ filters = <<>>
    /\ all_states = {}
    /\ config = None
    /\ stats_section = None
    /\ nparts = 0
    /\ subdir = <<>>
    /\ ignore_list = None
    /\ outputs = <<>>
    /\ replicas = <<>>
    /\ pos = 1
    /\ dirs = {}
    /\ ntotal = 0
    /\ ignored_files = 0
    /\ root_file_counts = <<>>
    /\ fault = None
    /\ raised = None
    /\ report = None
    /\ root_file_counts_out = None
    /\ log = <<>>

\* an exception raised inside the try block reaches the handler
Raise(name, at) ==
    /\ fault' = Some([name |-> name, at |-> at])
    /\ pc' = "except"

\* an exception raised outside the try block leaves main() at once
Escape(name, at) ==
    /\ fault' = Some([name |-> name, at |-> at])
    /\ raised' = Some(name)
    /\ pc' = "raised"

\* lines 90-118: the command line; line 118 opens the report file for writing
ParseArgs ==
    /\ pc = "args"
    /\ \E o \in Options :
         /\ opts' = o
         /\ filters' = ParseFilters(o.f, <<>>)
         /\ all_states' = AllStates(o.f)
         /\ root_file_counts_out' = IF o.r THEN Some("open") ELSE None
    /\ pc' = "config"
    /\ UNCHANGED <<config, stats_section, locals, outputs, replicas, pos, counters,
                   fault, raised, report, log>>

\* line 96: a -f value that does not split into two fields; line 107: usage
ArgsFault ==
    /\ pc = "args"
    /\ \E name \in {"ValueError", "SystemExit"} : Escape(name, "args")
    /\ UNCHANGED <<root_file_counts_out, cmdline, config, stats_section, locals, outputs, replicas, pos,
                   counters, report, log>>

\* lines 120-129: the database and RSE configuration
LoadConfig ==
    /\ pc = "config"
    /\ \E c \in Configs : config' = Some(c)
    /\ pc' = "stats"
    /\ UNCHANGED <<root_file_counts_out, cmdline, stats_section, locals, outputs, replicas, pos, counters,
                   fault, raised, report, log>>

\* lines 123-129: unreadable configuration, RSE missing from it
ConfigFault ==
    /\ pc = "config"
    /\ \E name \in {"OSError", "KeyError"} : Escape(name, "config")
    /\ UNCHANGED <<root_file_counts_out, cmdline, config, stats_section, locals, outputs, replicas, pos,
                   counters, report, log>>

\* lines 131-146: the "started" update
StartedData ==
    [status |-> "started", version |-> "2.0", rse |-> rse_name, start_time |-> Some("t0"),
     end_time |-> None, files |-> None, elapsed |-> None, directories |-> None,
     exception |-> <<>>, ignored_files |-> 0, ignore_list |-> None]

StatsStarted ==
    /\ pc = "stats"
    /\ IF stats_on
       THEN /\ stats_section' = UpdateSection(stats_section, StartedData)
            /\ log' = Append(log, "started")
       ELSE UNCHANGED <<stats_section, log>>
    /\ pc' = "try"
    /\ UNCHANGED <<root_file_counts_out, cmdline, config, locals, outputs, replicas, pos, counters,
                   fault, raised, report>>

\* lines 149-173: ORM classes, nparts, subdir
TryInit ==
    /\ pc = "try"
    /\ nparts' = NParts(opts, config[1])
    /\ subdir' = Subdir(config[1])
    /\ pc' = "connect"
    /\ UNCHANGED <<root_file_counts_out, cmdline, config, stats_section, ignore_list, outputs, replicas, pos,
                   counters, fault, raised, report, log>>

\* lines 149-173: e.g. int(opts["-n"]) of a value that is not a number
TryInitFault ==
    /\ pc = "try"
    /\ \E name \in {"ValueError", "AttributeError"} : Raise(name, "try")
    /\ UNCHANGED <<root_file_counts_out, cmdline, config, stats_section, locals, outputs, replicas, pos,
                   counters, raised, report, log>>

\* lines 175-196: ignore_list, engine, session, the RSE row
Connect ==
    /\ pc = "connect"
    /\ ignore_list' = Some(config[1].IgnoreList)
    /\ pc' = "create"
    /\ UNCHANGED <<root_file_counts_out, cmdline, config, stats_section, nparts, subdir, outputs, replicas,
                   pos, counters, fault, raised, report, log>>

\* lines 181-190: ValueError of a bad URL, a failed connection, sys.exit(1)
\* when the RSE is not in the catalog
ConnectFault ==
    /\ pc = "connect"
    /\ ignore_list' = Some(config[1].IgnoreList)
    /\ \E name \in {"ValueError", "OperationalError", "SystemExit"} : Raise(name, "connect")
    /\ UNCHANGED <<root_file_counts_out, cmdline, config, stats_section, nparts, subdir, outputs, replicas,
                   pos, counters, raised, report, log>>

\* lines 198-200: one PartitionedList per entry of filters
CreateOutput ==
    /\ pc = "create"
    /\ Len(outputs) < Len(filters)
    /\ LET f == filters[Len(outputs) + 1]
       IN  outputs' = Append(outputs, <<f[1], PLCreate(nparts, f[2])>>)
    /\ UNCHANGED <<root_file_counts_out, pc, cmdline, config, stats_section, locals, replicas, pos, counters,
                   fault, raised, report, log>>

\* PartitionedList.create fails, the sets created before it stay open
CreateFault ==
    /\ pc = "create"
    /\ Len(outputs) < Len(filters)
    /\ Raise("OSError", "create")
    /\ UNCHANGED <<root_file_counts_out, cmdline, config, stats_section, locals, outputs, replicas, pos,
                   counters, raised, report, log>>

\* lines 202-217: the query and the counters
Query ==
    /\ pc = "create"
    /\ Len(outputs) = Len(filters)
    /\ \E t \in Tables : replicas' = SelectReplicas(t, all_states)
    /\ pos' = 1
    /\ dirs' = {}
    /\ ntotal' = 0
    /\ ignored_files' = 0
    /\ root_file_counts' = InitRootCounts(config[1].RootList, <<>>)
    /\ pc' = "loop"
    /\ UNCHANGED <<root_file_counts_out, cmdline, config, stats_section, locals, outputs, fault, raised,
                   report, log>>

\* ---------------------------------------------------------- the row loop
\* the row the loop is about to handle
Cur == replicas[pos]

\* lines 222-243: the row gets past the subdirectory, ignore and root tests
Accepted(r) ==
    LET path == PathOf(r)
        i == MatchedRoot(path, root_file_counts)
    IN  /\ ~OutsideSubdir(path, subdir)
        /\ ~IsIgnored(path, ignore_list[1])
        /\ i # 0
        /\ root_file_counts[i][1] # <<>>

\* an add loop without the else: the long and the short line are both added
AddUpToBoth(outs, r, k) ==
    [j \in DOMAIN outs |->
        IF j < k /\ GroupAccepts(outs[j][1], r.state)
        THEN <<outs[j][1], PLAdd(PLAdd(outs[j][2], OutLine(r, TRUE)), OutLine(r, FALSE))>>
        ELSE outs[j]]

\* lines 252-257 for the output sets before index k
AddUpTo(outs, r, k) ==
    [j \in DOMAIN outs |->
        IF j < k /\ GroupAccepts(outs[j][1], r.state)
        THEN <<outs[j][1], PLAdd(outs[j][2], OutLine(r, long_output))>>
        ELSE outs[j]]

\* the log after the add calls of the output sets before index k
RECURSIVE LogAdds(_, _, _, _)
LogAdds(l, outs, r, k) ==
    IF k <= 1 THEN l
    ELSE LET before == LogAdds(l, outs, r, k - 1)
         IN  IF GroupAccepts(outs[k - 1][1], r.state) THEN Append(before, "add") ELSE before

\* lines 218-261: one iteration
LoopStep ==
    /\ pc = "loop"
    /\ pos <= Len(replicas)
    /\ pos' = pos + 1
    /\ LET r == Cur
           path == PathOf(r)
           i == MatchedRoot(path, root_file_counts)
       IN  IF OutsideSubdir(path, subdir)
           THEN /\ pc' = "loop"
                /\ UNCHANGED <<counters, outputs, log>>
           ELSE IF IsIgnored(path, ignore_list[1])
           THEN /\ ignored_files' = ignored_files + 1
                /\ pc' = "loop"
                /\ UNCHANGED <<dirs, ntotal, root_file_counts, outputs, log>>
           ELSE IF i = 0
           THEN /\ pc' = "loop"
                /\ UNCHANGED <<counters, outputs, log>>
           ELSE IF root_file_counts[i][1] = <<>>
           THEN /\ root_file_counts' = BumpRoot(root_file_counts, i)
                /\ pc' = "loop"
                /\ UNCHANGED <<dirs, ntotal, ignored_files, outputs, log>>
           ELSE /\ root_file_counts' = BumpRoot(root_file_counts, i)
                /\ dirs' = dirs \cup {ParentDir(path)}
                /\ outputs' = AddUpTo(outputs, r, Len(outputs) + 1)
                /\ log' = LogAdds(log, outputs, r, Len(outputs) + 1)
                /\ ntotal' = ntotal + 1
                /\ pc' = IF CapReached(ntotal + 1, stop_after) THEN "close" ELSE "loop"
                /\ UNCHANGED ignored_files
    /\ UNCHANGED <<root_file_counts_out, cmdline, config, stats_section, locals, replicas, fault, raised, report>>

\* the row source is exhausted
LoopEnd ==
    /\ pc = "loop"
    /\ pos > Len(replicas)
    /\ pc' = "close"
    /\ UNCHANGED <<root_file_counts_out, cmdline, config, stats_section, locals, outputs, replicas, pos,
                   counters, fault, raised, report, log>>

\* line 218: fetching the next batch of rows fails
FetchFault ==
    /\ pc = "loop"
    /\ Raise("OperationalError", "loop")
    /\ UNCHANGED <<root_file_counts_out, cmdline, config, stats_section, locals, outputs, replicas, pos,
                   counters, raised, report, log>>

\* lines 255-257: out_list.add of output set k fails on an accepted row
AddFault ==
    /\ pc = "loop"
    /\ pos <= Len(replicas)
    /\ Accepted(Cur)
    /\ \E k \in DOMAIN outputs :
         /\ GroupAccepts(outputs[k][1], Cur.state)
         /\ outputs' = AddUpTo(outputs, Cur, k)
         /\ log' = LogAdds(log, outputs, Cur, k)
    /\ root_file_counts' = BumpRoot(root_file_counts, MatchedRoot(PathOf(Cur), root_file_counts))
    /\ dirs' = dirs \cup {ParentDir(PathOf(Cur))}
    /\ Raise("OSError", "loop")
    /\ UNCHANGED <<root_file_counts_out, cmdline, config, stats_section, locals, replicas, pos, ntotal,
                   ignored_files, raised, report>>

\* --------------------------------------------------- closing and reporting
\* a close loop that is skipped
CloseDoneEarly(outs) == TRUE

\* the loop of lines 262-263 has gone through every output set
CloseDone(outs) == \A i \in DOMAIN outs : outs[i][2].closed

\* the output set the loop of lines 262-263 closes next
NextToClose(outs) == CHOOSE i \in DOMAIN outs : ~outs[i][2].closed /\ \A j \in 1..(i-1) : outs[j][2].closed

\* lines 262-263: out_list.close()
CloseOutput ==
    /\ pc = "close"
    /\ ~CloseDone(outputs)
    /\ outputs' = [outputs EXCEPT ![NextToClose(outputs)] = <<@[1], PLClose(@[2])>>]
    /\ log' = Append(log, "close")
    /\ UNCHANGED <<root_file_counts_out, pc, cmdline, config, stats_section, locals, replicas, pos, counters,
                   fault, raised, report>>

\* lines 262-263: out_list.close() fails
CloseFault ==
    /\ pc = "close"
    /\ ~CloseDone(outputs)
    /\ Raise("OSError", "close")
    /\ UNCHANGED <<root_file_counts_out, cmdline, config, stats_section, locals, outputs, replicas, pos,
                   counters, raised, report, log>>

\* lines 264-269: the summary lines, t1
Epilogue ==
    /\ pc = "close"
    /\ CloseDone(outputs)
    /\ pc' = "else"
    /\ UNCHANGED <<root_file_counts_out, cmdline, config, stats_section, locals, outputs, replicas, pos,
                   counters, fault, raised, report, log>>

\* lines 270-280: the except clause
FailedData ==
    [status |-> "failed", end_time |-> Some("t1"),
     exception |-> <<"Traceback", fault[1].name>>, ignore_list |-> ignore_list]

ExceptClause ==
    /\ pc = "except"
    /\ IF stats_on
       THEN IF ignore_list = None
            THEN /\ raised' = Some("UnboundLocalError")
                 /\ UNCHANGED <<stats_section, log>>
            ELSE /\ stats_section' = UpdateSection(stats_section, FailedData)
                 /\ log' = Append(log, "failed")
                 /\ raised' = Some(fault[1].name)
       ELSE /\ raised' = Some(fault[1].name)
            /\ UNCHANGED <<stats_section, log>>
    /\ pc' = "raised"
    /\ UNCHANGED <<root_file_counts_out, cmdline, config, locals, outputs, replicas, pos, counters, fault, report>>

\* lines 282-291: the "done" update
DoneData ==
    [status |-> "done", end_time |-> Some("t1"), files |-> Some(ntotal),
     ignored_files |-> ignored_files, elapsed |-> Some("t1-t0"),
     directories |-> Some(Cardinality(dirs)), ignore_list |-> ignore_list]

ElseStats ==
    /\ pc = "else"
    /\ IF stats_on
       THEN /\ stats_section' = UpdateSection(stats_section, DoneData)
            /\ log' = Append(log, "done")
       ELSE UNCHANGED <<stats_section, log>>
    /\ pc' = "report"
    /\ UNCHANGED <<root_file_counts_out, cmdline, config, locals, outputs, replicas, pos, counters,
                   fault, raised, report>>

\* lines 292-294: the root-count report
WriteReport ==
    /\ pc = "report"
    /\ IF report_on
       THEN /\ report' = Some(ReportOf(root_file_counts))
            /\ root_file_counts_out' = Some("closed")
            /\ log' = Append(log, "report")
       ELSE UNCHANGED <<report, root_file_counts_out, log>>
    /\ pc' = "returned"
    /\ UNCHANGED <<cmdline, config, stats_section, locals, outputs, replicas, pos,
                   counters, fault, raised>>

\* lines 293-294: writing or closing the report file fails
ReportFault ==
    /\ pc = "report"
    /\ report_on
    /\ Escape("OSError", "report")
    /\ UNCHANGED <<root_file_counts_out, cmdline, config, stats_section, locals, outputs, replicas, pos,
                   counters, report, log>>

Next ==
    \/ ParseArgs
    \/ ArgsFault
    \/ LoadConfig
    \/ ConfigFault
    \/ StatsStarted
    \/ TryInit
    \/ TryInitFault
    \/ Connect
    \/ ConnectFault
    \/ CreateOutput
    \/ CreateFault
    \/ Query
    \/ LoopStep
    \/ LoopEnd
    \/ FetchFault
    \/ AddFault
    \/ CloseOutput
    \/ CloseFault
    \/ Epilogue
    \/ ExceptClause
    \/ ElseStats
    \/ WriteReport
    \/ ReportFault

Spec == Init /\ [][Next]_vars

TypeOK ==
    /\ pc \in {"args", "config", "stats", "try", "connect", "create", "loop", "close",
                "else", "report", "returned", "except", "raised"}
    /\ ntotal \in 0..MaxRows
    /\ ignored_files \in 0..MaxRows
    /\ pos \in 1..(MaxRows + 1)

\* ------------------------------------------------------------ properties
Section == stats_section[1]
Status == IF stats_section = None THEN "absent" ELSE Section.status
AllClosed == \A i \in DOMAIN outputs : outputs[i][2].closed
InTry(at) == at \in {"try", "connect", "create", "loop", "close"}
StatsEvents == SelectSeq(log, LAMBDA e : e \in {"started", "done", "failed"})

\* C1: with a stats sink, a fault raised anywhere in the try block (after
\* the "started" update) leaves main() as that same fault, after the section
\* got status "failed", an end time and a non-empty trace of that fault.
C1_FailureAnnotation ==
    (pc = "raised" /\ stats_on /\ fault # None /\ InTry(fault[1].at)) =>
        /\ Status = "failed"
        /\ Section.end_time # None
        /\ Section.exception # <<>>
        /\ \E i \in DOMAIN Section.exception : Section.exception[i] = fault[1].name
        /\ raised = Some(fault[1].name)

\* C2: a run that ends with a fault leaving main() never has "done" as the
\* final status of its stats section.
C2_NoFailureBehindDone ==
    (pc = "raised" /\ stats_on) => Status # "done"

\* C3: when a fault raised after the output sets were created (in the row
\* loop or while closing) leaves main(), every output set has been closed.
C3_WritersReleased ==
    (pc = "raised" /\ fault # None /\ fault[1].at \in {"loop", "close"}) => AllClosed

\* the filters of section 4.1 stated on the configuration as declared
UnderSubdir(r) == StartsWith(PathOf(r), Subdir(config[1]))
HasIgnorePrefix(r) ==
    \E i \in DOMAIN config[1].IgnoreList : StartsWith(PathOf(r), config[1].IgnoreList[i])
RootMatches(r, root) == StartsWith(PathOf(r), RootPrefix(root))
UnderSomeRoot(r) == \E i \in DOMAIN config[1].RootList : RootMatches(r, config[1].RootList[i])
EligibleRow(r) == UnderSubdir(r) /\ ~HasIgnorePrefix(r) /\ UnderSomeRoot(r)
EligibleCount == Cardinality({i \in DOMAIN replicas : EligibleRow(replicas[i])})

\* the lines an output set holds, partition after partition
RECURSIVE Flatten(_)
Flatten(parts) == IF parts = <<>> THEN <<>> ELSE Head(parts) \o Flatten(Tail(parts))
LinesOf(pl) == Flatten(pl.parts)
LineCount(pl, line) == Cardinality({i \in DOMAIN LinesOf(pl) : LinesOf(pl)[i] = line})

\* a loop iteration that handles the current row to its end
RowStep == pc = "loop" /\ pos <= Len(replicas) /\ pos' = pos + 1

\* C4: with a cap K the accepted count never exceeds K, the loop is left as
\* soon as the count reaches K (the last row read is the K-th accepted one),
\* and when the rows hold more than K eligible records the "files" value of
\* the "done" update is exactly K.
C4_CapEnforcement ==
    stop_after # None =>
        /\ ntotal <= stop_after[1]
        /\ (pc = "loop" => ntotal < stop_after[1])
        /\ (ntotal = stop_after[1] => (pos > 1 /\ EligibleRow(replicas[pos - 1])))
        /\ ((Status = "done" /\ EligibleCount > stop_after[1]) => Section.files = stop_after)

\* a capped run that ended "done" with rows left unread and an output set
\* that holds fewer than K lines
C4_Witness ==
    /\ stop_after # None
    /\ Status = "done"
    /\ EligibleCount > stop_after[1]
    /\ Section.files = stop_after
    /\ pos <= Len(replicas)
    /\ \E i \in DOMAIN outputs : Len(LinesOf(outputs[i][2])) < stop_after[1]

\* C5: with a stats sink the statuses written are "started" and then exactly
\* one of "done" and "failed", for every run that got past the "started"
\* update, wherever a fault occurred.
C5_RunLifecycle ==
    stats_on =>
        /\ StatsEvents \in {<<>>, <<"started">>, <<"started", "done">>, <<"started", "failed">>}
        /\ ((pc \in {"raised", "returned"} /\ StatsEvents # <<>>) => Len(StatsEvents) = 2)

\* C6: the terminal stats update is the last thing the run writes: nothing
\* is written to a partition or to the root-count report after it.
C6_TerminalStatsLast ==
    \A i \in DOMAIN log : log[i] \in {"done", "failed"} => i = Len(log)

\* C7: "done" is recorded, and the report written, only after every output
\* set was created and closed; a run in which a close() raised never records
\* "done" and ends with status "failed".
C7_DoneAfterClose ==
    /\ (Status = "done" \/ report # None) => (Len(outputs) = Len(filters) /\ AllClosed)
    /\ (fault # None /\ fault[1].at = "close") =>
           /\ Status # "done"
           /\ report = None
           /\ ((pc = "raised" /\ stats_on) => Status = "failed")

\* a capped run with two output sets that recorded "done" and wrote the report
C7_Witness ==
    /\ Status = "done"
    /\ report # None
    /\ Len(outputs) >= 2
    /\ AllClosed
    /\ stop_after # None
    /\ ntotal = stop_after[1]
    /\ pos <= Len(replicas)

\* C8: a row under the subdirectory whose path starts with an ignore prefix
\* increments ignored_files by one and changes neither the output sets, the
\* root counters, the directory set nor the accepted count.
C8_IgnorePrecedence ==
    [][(RowStep /\ UnderSubdir(Cur) /\ HasIgnorePrefix(Cur)) =>
          (ignored_files' = ignored_files + 1 /\ UNCHANGED <<outputs, root_file_counts, dirs, ntotal>>)]_vars

\* an ignored row that is under a configured root and whose state a group accepts
C8_Witness ==
    /\ pc = "loop"
    /\ pos > 1
    /\ UnderSubdir(replicas[pos - 1])
    /\ HasIgnorePrefix(replicas[pos - 1])
    /\ UnderSomeRoot(replicas[pos - 1])
    /\ \E i \in DOMAIN outputs : GroupAccepts(outputs[i][1], replicas[pos - 1].state)
    /\ ignored_files >= 1
    /\ ntotal = 0

\* the count of a root in root_file_counts
RootCount(counts, root) == counts[CHOOSE i \in DOMAIN counts : counts[i][1] = root][2]

\* index in the declared root list of the first root the row falls under, 0 if none
FirstRoot(r) ==
    LET roots == config[1].RootList
        m == {i \in DOMAIN roots : RootMatches(r, roots[i])}
    IN  IF m = {} THEN 0 ELSE CHOOSE i \in m : \A j \in m : i <= j

\* exactly the counter of the i-th declared root goes up, by one
OnlyRootBumped(i) ==
    LET roots == config[1].RootList
    IN  \A j \in DOMAIN roots :
           RootCount(root_file_counts', roots[j]) =
               RootCount(root_file_counts, roots[j]) + (IF roots[j] = roots[i] THEN 1 ELSE 0)

\* C9 as stated: every row that passes the subdirectory and ignore filters
\* increments exactly one root counter, that of the first declared root whose
\* prefix is a prefix of the path.
C9_EveryFilteredRowCounted ==
    [][(RowStep /\ UnderSubdir(Cur) /\ ~HasIgnorePrefix(Cur)) =>
          (FirstRoot(Cur) # 0 /\ OnlyRootBumped(FirstRoot(Cur)))]_vars

\* C9: a row that passes the subdirectory and ignore filters and falls under
\* a configured root increments exactly one root counter, by one: that of the
\* first root in declared order whose prefix is a prefix of the path; a row
\* under no configured root increments none.
C9_RootTieBreak ==
    [][(RowStep /\ UnderSubdir(Cur) /\ ~HasIgnorePrefix(Cur)) =>
          IF FirstRoot(Cur) = 0 THEN UNCHANGED root_file_counts
          ELSE OnlyRootBumped(FirstRoot(Cur))]_vars

\* roots /a, /a/b in that order and the row /a/b/f: /a counted, /a/b not
C9_Witness ==
    /\ pc = "loop"
    /\ pos = 2
    /\ config[1].RootList = <<R_a, R_ab>>
    /\ PathOf(replicas[1]) = N_abf
    /\ ntotal = 1
    /\ RootCount(root_file_counts, R_a) = 1
    /\ RootCount(root_file_counts, R_ab) = 0

\* C10: every declared filter has its own output set, and every accepted row
\* is in that set exactly once if the filter's state spec holds its state or
\* is "*", and not at all otherwise.
C10_GroupIndependence ==
    pc \in {"loop", "close", "else", "report", "returned"} =>
        /\ Len(outputs) = Len(opts.f)
        /\ \A k \in DOMAIN opts.f : \E j \in DOMAIN outputs :
              /\ outputs[j][1] = opts.f[k][1]
              /\ outputs[j][2].prefix = opts.f[k][2]
              /\ \A n \in 1..(pos - 1) :
                    LineCount(outputs[j][2], OutLine(replicas[n], long_output)) =
                        IF EligibleRow(replicas[n])
                           /\ (replicas[n].state \in CharSet(opts.f[k][1]) \/ opts.f[k][1] = <<"*">>)
                        THEN 1 ELSE 0

\* the partition writers of the run: <<output set, partition>>
Writers == UNION {{<<j, i>> : i \in DOMAIN outputs[j][2].parts} : j \in DOMAIN outputs}

\* C11: every partition file (output prefix, partition index) has exactly
\* one partition writer, which belongs to exactly one output set, whatever
\* the declared filters, filters that name the same prefix included.
C11_OneWriterPerPartition ==
    \A w1, w2 \in Writers :
        PartFile(outputs[w1[1]][2], w1[2]) = PartFile(outputs[w2[1]][2], w2[2]) => w1 = w2

\* the rows read whose state the state spec accepts and that pass the
\* subdirectory, ignore and root filters
EligibleFor(spec) ==
    {n \in DOMAIN replicas :
        EligibleRow(replicas[n]) /\ (replicas[n].state \in CharSet(spec) \/ spec = <<"*">>)}

\* the set of the lines an output set holds
LineSet(pl) == {LinesOf(pl)[i] : i \in DOMAIN LinesOf(pl)}

\* the run went through the else clause
Done == pc \in {"report", "returned"} /\ fault = None

\* C12: after a run without cap that ended in DONE in short mode, the lines
\* in the partitions of every declared output group are exactly the paths of
\* the rows that are under the subdirectory, match no ignore prefix, fall
\* under a configured root and have a state the group accepts, each once,
\* whatever the order of the rows.
C12_RoundTrip ==
    (Done /\ stop_after = None /\ ~long_output) =>
        \A k \in DOMAIN opts.f : \E j \in DOMAIN outputs :
            /\ outputs[j][1] = opts.f[k][1]
            /\ outputs[j][2].prefix = opts.f[k][2]
            /\ LineSet(outputs[j][2]) = {PathOf(replicas[n]) : n \in EligibleFor(opts.f[k][1])}
            /\ Len(LinesOf(outputs[j][2])) = Cardinality(EligibleFor(opts.f[k][1]))

\* C13: when the run fails on a malformed filter, an unreadable
\* configuration, an unknown site, a failed connection or a site missing from
\* the catalog, no output set has been constructed and no output file of the
\* run has been opened or written.
C13_NoOutputOnSetupError ==
    (fault # None /\ fault[1].at \in {"args", "config", "connect"}) =>
        /\ outputs = <<>>
        /\ root_file_counts_out = None
        /\ report = None
        /\ \A i \in DOMAIN log : log[i] \notin {"add", "close", "report"}

\* the lines a step adds to the j-th output set
AddedLines(j) == LineSet(outputs'[j][2]) \ LineSet(outputs[j][2])

\* the filters of section 4.1 applied to the path field of a row
PathFieldEligible(r) ==
    /\ r.path # None
    /\ StartsWith(r.path, Subdir(config[1]))
    /\ ~\E i \in DOMAIN config[1].IgnoreList : StartsWith(r.path, config[1].IgnoreList[i])
    /\ \E i \in DOMAIN config[1].RootList : StartsWith(r.path, RootPrefix(config[1].RootList[i]))

\* the line of a row built from its name and path fields
PathFieldLine(r) ==
    IF long_output
    THEN rse_name \o Tab \o r.scope \o Tab \o r.name \o Tab \o OrNull(r.path) \o Tab \o <<r.state>>
    ELSE OrNull(r.path)

\* C14: filtering is done on the path field of the row, and the line added
\* to an output set is the bare path field in short mode ("null" when it is
\* absent) and site, scope, name, path, state separated by tabs in long mode,
\* name and path being the two fields of the row.
C14_OutputLineContent ==
    [][RowStep =>
          \A j \in DOMAIN outputs :
              AddedLines(j) =
                  IF PathFieldEligible(Cur) /\ GroupAccepts(outputs[j][1], Cur.state)
                  THEN {PathFieldLine(Cur)} ELSE {}]_vars

\* the j-th output set got one line more in exactly one of its partitions
OneLineInOnePartition(j) ==
    LET old == outputs[j][2].parts
        new == outputs'[j][2].parts
    IN  /\ DOMAIN new = DOMAIN old
        /\ \E i \in DOMAIN old :
              /\ new[i] = Append(old[i], OutLine(Cur, long_output))
              /\ \A h \in DOMAIN old : h # i => new[h] = old[h]

SoftSkipped(r) == ~UnderSubdir(r) \/ (~HasIgnorePrefix(r) /\ ~UnderSomeRoot(r))

\* C16: a row outside the subdirectory (even one that matches an ignore
\* prefix) and a row under it that matches no ignore prefix and no root
\* change none of the accepted count, ignored_files, the directory set, the
\* root counters and the output sets, and raise nothing; the ignore test
\* comes after the subdirectory test and before the root search, so an
\* ignored row under a root is tallied as ignored and counted for no root.
C16_SoftSkips ==
    /\ [][(RowStep /\ SoftSkipped(Cur)) =>
            /\ UNCHANGED <<ntotal, ignored_files, dirs, root_file_counts, outputs>>
            /\ pc' = "loop"
            /\ fault' = None
            /\ raised' = None]_vars
    /\ [][(RowStep /\ UnderSubdir(Cur) /\ HasIgnorePrefix(Cur) /\ UnderSomeRoot(Cur)) =>
            (ignored_files' = ignored_files + 1 /\ UNCHANGED root_file_counts)]_vars

\* both kinds of skipped rows were read, one of them matching an ignore
\* prefix and with a state a group accepts, and nothing was counted
C16_Witness ==
    /\ pc = "loop"
    /\ \E a, b \in 1..(pos - 1) :
          /\ ~UnderSubdir(replicas[a])
          /\ HasIgnorePrefix(replicas[a])
          /\ \E j \in DOMAIN outputs : GroupAccepts(outputs[j][1], replicas[a].state)
          /\ UnderSubdir(replicas[b])
          /\ ~HasIgnorePrefix(replicas[b])
          /\ ~UnderSomeRoot(replicas[b])
    /\ ntotal = 0
    /\ ignored_files = 0
    /\ dirs = {}
    /\ \A i \in DOMAIN root_file_counts : root_file_counts[i][2] = 0
    /\ \A j \in DOMAIN outputs : LinesOf(outputs[j][2]) = <<>>

\* the part of a path before its last "/", "/" for a path without one
BeforeLastSeparator(p) ==
    LET seps == {k \in 1..Len(p) : p[k] = "/"}
    IN  IF seps = {} THEN <<"/">>
        ELSE SubSeq(p, 1, (CHOOSE k \in seps : \A h \in seps : h <= k) - 1)

RECURSIVE SumCounts(_)
SumCounts(counts) == IF counts = <<>> THEN 0 ELSE Head(counts)[2] + SumCounts(Tail(counts))

\* the sum of the values of a root-count report
RECURSIVE SumReport(_)
SumReport(rep) ==
    IF rep = {} THEN 0
    ELSE LET e == CHOOSE e \in rep : TRUE IN e[2] + SumReport(rep \ {e})

====
